---------------------------- MODULE Spec2Model ----------------------------
(* PRGI data manager: header normalisation, record canonicalisation, the   *)
(* deduplicated SQLite store with its batch importer (prgi_data_manager.py) *)
(* and the two query paths (prgi_data_manager.py query_data, app.py        *)
(* search_database).                                                       *)
(*                                                                         *)
(* A Python str is a sequence of one-character strings, so that strip,     *)
(* lower, replace, split, join and SQL LIKE are computed character by      *)
(* character.  Python's None is the value None below.                      *)
EXTENDS Integers, Sequences, FiniteSets, TLC

VARIABLES
    db_exists,      \* the SQLite file of the store exists
    store,          \* table registrations: the rows in id order
    seq,            \* sqlite_sequence: the last rowid AUTOINCREMENT generated
    total_changes,  \* conn.total_changes of the importer's connection
    pc,             \* position of cmd_import / import_csv
    source,         \* the rows csv.DictReader has yielded in this run
    batch_size,     \* import_csv's batch_size argument
    batch,          \* import_csv's batch list
    inserted,       \* import_csv's local inserted
    skipped,        \* import_csv's local skipped
    outcome,        \* what the caller of import_csv received
    hist,           \* history of the import runs (ghost)
    q,              \* the last query call and the rows it returned
    cz              \* the last canonicaliser call and its result

vars == <<db_exists, store, seq, total_changes, pc, source, batch_size, batch,
          inserted, skipped, outcome, hist, q, cz>>

-----------------------------------------------------------------------------
(* Bounds of the model.                                                    *)

MaxSeq == 4
MaxBatch == 2
MaxFields == 2
MaxStore == 2

-----------------------------------------------------------------------------
(* Python strings.                                                         *)

None == <<"None">>

UpperChars ==
  <<"A", "B", "C", "D", "E", "F", "G", "H", "I", "J", "K", "L", "M",
    "N", "O", "P", "Q", "R", "S", "T", "U", "V", "W", "X", "Y", "Z">>

LowerChars ==
  <<"a", "b", "c", "d", "e", "f", "g", "h", "i", "j", "k", "l", "m",
    "n", "o", "p", "q", "r", "s", "t", "u", "v", "w", "x", "y", "z">>

LowerChar(c) ==
  IF \E i \in 1..26 : UpperChars[i] = c
    THEN LowerChars[CHOOSE i \in 1..26 : UpperChars[i] = c]
    ELSE c

RECURSIVE Lower(_)
Lower(s) == IF s = <<>> THEN <<>> ELSE <<LowerChar(Head(s))>> \o Lower(Tail(s))

IsSpace(c) == c = " "

RECURSIVE LStrip(_)
LStrip(s) ==
  IF s = <<>> THEN <<>>
  ELSE IF IsSpace(Head(s)) THEN LStrip(Tail(s)) ELSE s

RECURSIVE RStrip(_)
RStrip(s) ==
  IF s = <<>> THEN <<>>
  ELSE IF IsSpace(s[Len(s)]) THEN RStrip(SubSeq(s, 1, Len(s) - 1)) ELSE s

Strip(s) == RStrip(LStrip(s))

RECURSIVE Replace(_, _, _)
Replace(s, old, new) ==
  IF s = <<>> THEN <<>>
  ELSE <<IF Head(s) = old THEN new ELSE Head(s)>> \o Replace(Tail(s), old, new)

(* str.split() with no argument: the maximal runs of non-whitespace.       *)
RECURSIVE SplitFrom(_, _)
SplitFrom(s, word) ==
  IF s = <<>> THEN (IF word = <<>> THEN <<>> ELSE <<word>>)
  ELSE IF IsSpace(Head(s))
         THEN (IF word = <<>> THEN <<>> ELSE <<word>>) \o SplitFrom(Tail(s), <<>>)
         ELSE SplitFrom(Tail(s), Append(word, Head(s)))

Split(s) == SplitFrom(s, <<>>)

RECURSIVE Join(_, _)
Join(sep, words) ==
  IF words = <<>> THEN <<>>
  ELSE IF Len(words) = 1 THEN words[1]
  ELSE words[1] \o sep \o Join(sep, Tail(words))

-----------------------------------------------------------------------------
(* Python dicts: insertion-ordered sequences of <<key, value>> pairs with  *)
(* distinct keys.                                                          *)

HasKey(d, k) == \E i \in 1..Len(d) : d[i][1] = k

DictGet(d, k, default) ==
  IF HasKey(d, k) THEN d[CHOOSE i \in 1..Len(d) : d[i][1] = k][2] ELSE default

(* d[k] = v: a key already present keeps its place and takes the new value *)
DictSet(d, k, v) ==
  IF HasKey(d, k)
    THEN [i \in 1..Len(d) |-> IF d[i][1] = k THEN <<k, v>> ELSE d[i]]
    ELSE Append(d, <<k, v>>)

-----------------------------------------------------------------------------
(* Header normaliser.                                                      *)

SR_NO == <<"s", "r", "_", "n", "o">>
TITLE_NAME == <<"t", "i", "t", "l", "e", "_", "n", "a", "m", "e">>
REGISTRATION_NUMBER ==
  <<"r", "e", "g", "i", "s", "t", "r", "a", "t", "i", "o", "n", "_",
    "n", "u", "m", "b", "e", "r">>
OWNER_NAME == <<"o", "w", "n", "e", "r", "_", "n", "a", "m", "e">>
PUB_STATE_NAME ==
  <<"p", "u", "b", "_", "s", "t", "a", "t", "e", "_", "n", "a", "m", "e">>
PUB_DIST_NAME ==
  <<"p", "u", "b", "_", "d", "i", "s", "t", "_", "n", "a", "m", "e">>
LANGUAGE == <<"l", "a", "n", "g", "u", "a", "g", "e">>
CLASS_NAME == <<"c", "l", "a", "s", "s", "_", "n", "a", "m", "e">>

CANONICAL_COLUMNS ==
  <<SR_NO, TITLE_NAME, REGISTRATION_NUMBER, OWNER_NAME, PUB_STATE_NAME,
    PUB_DIST_NAME, LANGUAGE, CLASS_NAME>>

ALIASES ==
  << <<<<"s", "r", " ", "n", "o">>, SR_NO>>,
     <<<<"s", ".", "n", "o">>, SR_NO>>,
     <<<<"s", " ", "n", "o">>, SR_NO>>,
     <<<<"t", "i", "t", "l", "e">>, TITLE_NAME>>,
     <<<<"t", "i", "t", "l", "e", " ", "n", "a", "m", "e">>, TITLE_NAME>>,
     <<<<"r", "e", "g", "i", "s", "t", "r", "a", "t", "i", "o", "n", " ",
         "n", "o">>, REGISTRATION_NUMBER>>,
     <<<<"r", "e", "g", "i", "s", "t", "r", "a", "t", "i", "o", "n", " ",
         "n", "u", "m", "b", "e", "r">>, REGISTRATION_NUMBER>>,
     <<<<"o", "w", "n", "e", "r">>, OWNER_NAME>>,
     <<<<"o", "w", "n", "e", "r", " ", "n", "a", "m", "e">>, OWNER_NAME>>,
     <<<<"s", "t", "a", "t", "e">>, PUB_STATE_NAME>>,
     <<<<"p", "u", "b", "l", "i", "c", "a", "t", "i", "o", "n", " ",
         "s", "t", "a", "t", "e">>, PUB_STATE_NAME>>,
     <<<<"d", "i", "s", "t", "r", "i", "c", "t">>, PUB_DIST_NAME>>,
     <<<<"p", "u", "b", "l", "i", "c", "a", "t", "i", "o", "n", " ",
         "d", "i", "s", "t", "r", "i", "c", "t">>, PUB_DIST_NAME>>,
     <<<<"l", "a", "n", "g", "u", "a", "g", "e">>, LANGUAGE>>,
     <<<<"l", "a", "n", "g", "u", "a", "g", "e", "s">>, LANGUAGE>>,
     <<<<"c", "l", "a", "s", "s">>, CLASS_NAME>>,
     <<<<"c", "l", "a", "s", "s", " ", "n", "a", "m", "e">>, CLASS_NAME>> >>

(* normalize_header falling back to the key itself, its spaces kept *)
normalize_header_keep_spaces(name) ==
  IF name = None \/ name = <<>> THEN <<>>
  ELSE LET key == Join(<<" ">>, Split(Replace(Lower(Strip(name)), "_", " ")))
       IN  DictGet(ALIASES, key, key)

normalize_header(name) ==
  IF name = None \/ name = <<>> THEN <<>>
  ELSE LET key == Join(<<" ">>, Split(Replace(Lower(Strip(name)), "_", " ")))
       IN  DictGet(ALIASES, key, Replace(key, " ", "_"))

-----------------------------------------------------------------------------
(* Record canonicaliser.  A raw row is a dict header -> value as           *)
(* csv.DictReader yields it: a header may be "" or None (restkey), a value *)
(* may be "" or None (restval).                                            *)

(* v or "" *)
OrEmpty(v) == IF v = None THEN <<>> ELSE v

(* if k: the header is neither None nor "" *)
Truthy(s) == s /= None /\ s /= <<>>

(* {normalize_header(k): (v or "").strip() for k, v in row.items() if k}   *)
RECURSIVE NormalizeItems(_, _)
NormalizeItems(items, acc) ==
  IF items = <<>> THEN acc
  ELSE LET k == Head(items)[1]
           v == Head(items)[2]
       IN  NormalizeItems(Tail(items),
             IF Truthy(k)
               THEN DictSet(acc, normalize_header(k), Strip(OrEmpty(v)))
               ELSE acc)

(* {k: v for k, v in normalized.items() if k} *)
DropEmptyKeys(d) == SelectSeq(d, LAMBDA e : e[1] /= <<>>)

IsCanonical(k) == \E i \in 1..Len(CANONICAL_COLUMNS) : CANONICAL_COLUMNS[i] = k

(* {k: v for k, v in normalized.items() if k not in CANONICAL_COLUMNS and v} *)
Extras(normalized) ==
  SelectSeq(normalized, LAMBDA e : ~IsCanonical(e[1]) /\ e[2] /= <<>>)

(* json.dumps of a str: quoted, with the quote and the backslash escaped   *)
RECURSIVE JsonEscape(_)
JsonEscape(s) ==
  IF s = <<>> THEN <<>>
  ELSE (IF Head(s) = "\"" \/ Head(s) = "\\" THEN <<"\\", Head(s)>> ELSE <<Head(s)>>)
       \o JsonEscape(Tail(s))

JsonString(s) == <<"\"">> \o JsonEscape(s) \o <<"\"">>

RECURSIVE JsonItems(_)
JsonItems(d) ==
  IF d = <<>> THEN <<>>
  ELSE JsonString(d[1][1]) \o <<":", " ">> \o JsonString(d[1][2])
       \o (IF Len(d) = 1 THEN <<>> ELSE <<",", " ">> \o JsonItems(Tail(d)))

(* json.dumps(extras, ensure_ascii=False) of a dict of strings *)
JsonDumps(d) == <<"{">> \o JsonItems(d) \o <<"}">>

(* row_to_canonical with normalized.get(key) in place of                   *)
(* normalized.get(key, ""): an absent field is None.                       *)
row_to_canonical_no_default(row) ==
  LET normalized == DropEmptyKeys(NormalizeItems(row, <<>>))
      extras == Extras(normalized)
  IN  [ sr_no               |-> DictGet(normalized, SR_NO, None),
        title_name          |-> DictGet(normalized, TITLE_NAME, None),
        registration_number |-> DictGet(normalized, REGISTRATION_NUMBER, None),
        owner_name          |-> DictGet(normalized, OWNER_NAME, None),
        pub_state_name      |-> DictGet(normalized, PUB_STATE_NAME, None),
        pub_dist_name       |-> DictGet(normalized, PUB_DIST_NAME, None),
        language            |-> DictGet(normalized, LANGUAGE, None),
        class_name          |-> DictGet(normalized, CLASS_NAME, None),
        meta_json           |-> IF extras = <<>> THEN <<>> ELSE JsonDumps(extras) ]

row_to_canonical(row) ==
  LET normalized == DropEmptyKeys(NormalizeItems(row, <<>>))
      extras == Extras(normalized)
  IN  [ sr_no               |-> DictGet(normalized, SR_NO, <<>>),
        title_name          |-> DictGet(normalized, TITLE_NAME, <<>>),
        registration_number |-> DictGet(normalized, REGISTRATION_NUMBER, <<>>),
        owner_name          |-> DictGet(normalized, OWNER_NAME, <<>>),
        pub_state_name      |-> DictGet(normalized, PUB_STATE_NAME, <<>>),
        pub_dist_name       |-> DictGet(normalized, PUB_DIST_NAME, <<>>),
        language            |-> DictGet(normalized, LANGUAGE, <<>>),
        class_name          |-> DictGet(normalized, CLASS_NAME, <<>>),
        meta_json           |-> IF extras = <<>> THEN <<>> ELSE JsonDumps(extras) ]

-----------------------------------------------------------------------------
(* Deduplicated store: table registrations with its unique index.          *)

(* The unique index as it would be were an absent field stored as NULL   *)
(* instead of "": NULLs never conflict.                                    *)
UniqueConflictNullable(rows, t) ==
  \E i \in 1..Len(rows) :
     /\ rows[i].registration_number = t[3] /\ t[3] /= <<>>
     /\ rows[i].title_name = t[2] /\ t[2] /= <<>>
     /\ rows[i].owner_name = t[4] /\ t[4] /= <<>>

(* idx_registrations_unique: a stored row with the same                    *)
(* (registration_number, title_name, owner_name)                           *)
UniqueConflict(rows, t) ==
  \E i \in 1..Len(rows) :
     /\ rows[i].registration_number = t[3]
     /\ rows[i].title_name = t[2]
     /\ rows[i].owner_name = t[4]

StoredRow(id, t) ==
  [ id                  |-> id,
    sr_no               |-> t[1],
    title_name          |-> t[2],
    registration_number |-> t[3],
    owner_name          |-> t[4],
    pub_state_name      |-> t[5],
    pub_dist_name       |-> t[6],
    language            |-> t[7],
    class_name          |-> t[8],
    meta_json           |-> t[9] ]

(* A plain INSERT into a table without the unique index.                   *)
InsertPlain(db, t) ==
  [ rows    |-> Append(db.rows, StoredRow(db.seq + 1, t)),
    seq     |-> db.seq + 1,
    changes |-> db.changes + 1 ]

(* INSERT OR REPLACE: the conflicting row is deleted, the new one stored.  *)
InsertOrReplace(db, t) ==
  [ rows    |-> Append(SelectSeq(db.rows, LAMBDA r : ~UniqueConflict(<<r>>, t)),
                       StoredRow(db.seq + 1, t)),
    seq     |-> db.seq + 1,
    changes |-> db.changes + 1 ]

(* One INSERT OR IGNORE of the tuple t = (sr_no, title_name,               *)
(* registration_number, owner_name, pub_state_name, pub_dist_name,         *)
(* language, class_name, meta_json) on the database                        *)
(* db = [rows, seq, changes].  AUTOINCREMENT generates the rowid before    *)
(* the unique index is checked, so an ignored row uses up an id.           *)
InsertOrIgnore(db, t) ==
  IF UniqueConflict(db.rows, t)
    THEN [db EXCEPT !.seq = db.seq + 1]
    ELSE [ rows    |-> Append(db.rows, StoredRow(db.seq + 1, t)),
           seq     |-> db.seq + 1,
           changes |-> db.changes + 1 ]

(* conn.executemany(insert_sql, batch) *)
RECURSIVE ExecuteMany(_, _)
ExecuteMany(db, rows) ==
  IF rows = <<>> THEN db ELSE ExecuteMany(InsertOrIgnore(db, Head(rows)), Tail(rows))

(* the tuple import_csv appends to the batch *)
BatchTuple(c) ==
  << c.sr_no, c.title_name, c.registration_number, c.owner_name,
     c.pub_state_name, c.pub_dist_name, c.language, c.class_name, c.meta_json >>

-----------------------------------------------------------------------------
(* Batch importer: cmd_import and import_csv.                              *)

DEFAULT_BATCH_SIZE == 1000

BatchSizes == (0..MaxBatch) \cup {DEFAULT_BATCH_SIZE}

ScenarioRow ==
  << <<<<"T", "i", "t", "l", "e", " ", "N", "a", "m", "e">>, <<"D", "a", "i", "l", "y", " ", "N", "e", "w", "s">>>>,
     <<<<"R", "e", "g", "i", "s", "t", "r", "a", "t", "i", "o", "n", " ", "N", "o">>, <<"R", "E", "G", "1", "2", "3">>>>,
     <<<<"O", "w", "n", "e", "r">>, <<"R", "a", "m", "e", "s", "h", " ", "K", "u", "m", "a", "r">>>>,
     <<<<"S", "t", "a", "t", "e">>, <<"M", "a", "h", "a", "r", "a", "s", "h", "t", "r", "a">>>> >>

SameKeyRow ==
  << <<<<"t", "i", "t", "l", "e", "_", "n", "a", "m", "e">>, <<" ", "D", "a", "i", "l", "y", " ", "N", "e", "w", "s", " ">>>>,
     <<<<"R", "e", "g", "i", "s", "t", "r", "a", "t", "i", "o", "n", " ", "N", "u", "m", "b", "e", "r">>, <<"R", "E", "G", "1", "2", "3">>>>,
     <<<<"O", "w", "n", "e", "r", " ", "N", "a", "m", "e">>, <<"R", "a", "m", "e", "s", "h", " ", "K", "u", "m", "a", "r">>>>,
     <<<<"S", "t", "a", "t", "e">>, <<"G", "o", "a">>>>,
     <<<<"E", "d", "i", "t", "o", "r">>, <<"S", "u", "r", "e", "s", "h">>>> >>

OtherRow ==
  << <<<<"T", "i", "t", "l", "e">>, <<"G", "o", "a", " ", "T", "i", "m", "e", "s">>>>,
     <<<<"R", "e", "g", "i", "s", "t", "r", "a", "t", "i", "o", "n", " ", "N", "o">>, <<"R", "E", "G", "7">>>>,
     <<<<"O", "w", "n", "e", "r">>, <<"R", "a", "m", "e", "s", "h", " ", "K", "u", "m", "a", "r">>>>,
     <<<<"L", "a", "n", "g", "u", "a", "g", "e">>, <<"H", "i", "n", "d", "i">>>> >>

ExtrasOnlyRow ==
  << <<<<"E", "d", "i", "t", "o", "r">>, <<"S", "u", "r", "e", "s", "h">>>>,
     <<<<"T", "i", "t", "l", "e">>, None>> >>

ImportRows == {ScenarioRow, SameKeyRow, OtherRow, ExtrasOnlyRow}

RECURSIVE SeqsUpTo(_, _)
SeqsUpTo(S, n) ==
  IF n = 0 THEN {<<>>}
  ELSE LET shorter == SeqsUpTo(S, n - 1)
       IN  shorter \cup {Append(s, x) : s \in {t \in shorter : Len(t) = n - 1}, x \in S}

NoOutcome == [kind |-> "none"]

Init ==
  /\ db_exists = FALSE
  /\ store = <<>>
  /\ seq = 0
  /\ total_changes = 0
  /\ pc = "idle"
  /\ source = <<>>
  /\ batch_size = DEFAULT_BATCH_SIZE
  /\ batch = <<>>
  /\ inserted = 0
  /\ skipped = 0
  /\ outcome = NoOutcome
  /\ hist = [prevReturned |-> FALSE, prevSource |-> <<>>, prevCount |-> 0,
             startCount |-> 0, flushes |-> <<>>]
  /\ q = [path |-> "none"]
  /\ cz = [fn |-> "none"]

(* cmd_import up to the call of import_csv, and import_csv up to its loop: *)
(* connect_db opens a new connection, creating the file and the empty     *)
(* table when they are missing (CREATE ... IF NOT EXISTS changes nothing   *)
(* in an existing store); the counters start at 0.                         *)
CmdImport(bsz) ==
  /\ pc \in {"idle", "returned", "raised"}
  /\ seq < MaxSeq
  /\ db_exists' = TRUE
  /\ total_changes' = 0
  /\ source' = <<>>
  /\ batch_size' = bsz
  /\ batch' = <<>>
  /\ inserted' = 0
  /\ skipped' = 0
  /\ outcome' = NoOutcome
  /\ hist' = [ prevReturned |-> pc = "returned",
               prevSource |-> IF pc = "returned" THEN source ELSE <<>>,
               prevCount  |-> Len(store),
               startCount |-> Len(store),
               flushes    |-> <<>> ]
  /\ pc' = "read"
  /\ UNCHANGED <<store, seq, q, cz>>

(* The loop of import_csv without its test of len(batch): every row read   *)
(* stays in the batch until the reader is exhausted.                       *)
ReadRowBufferingAll(row) ==
  /\ pc = "read"
  /\ seq + Len(batch) < MaxSeq
  /\ source' = Append(source, row)
  /\ batch' = Append(batch, BatchTuple(row_to_canonical(row)))
  /\ pc' = "read"
  /\ UNCHANGED <<db_exists, store, seq, total_changes, batch_size, inserted,
                 skipped, outcome, hist, q, cz>>

(* for row in reader: the reader yields row;                              *)
(* c = row_to_canonical(row); batch.append(...)                            *)
ReadRow(row) ==
  /\ pc = "read"
  /\ seq + Len(batch) < MaxSeq
  /\ source' = Append(source, row)
  /\ batch' = Append(batch, BatchTuple(row_to_canonical(row)))
  /\ pc' = IF Len(batch') >= batch_size THEN "flush" ELSE "read"
  /\ UNCHANGED <<db_exists, store, seq, total_changes, batch_size, inserted,
                 skipped, outcome, hist, q, cz>>

(* The batch counted with the number of rows handed to executemany taken  *)
(* for the number of rows inserted.                                        *)
FlushedCountingRows(clear) ==
  LET db == ExecuteMany([rows |-> store, seq |-> seq, changes |-> total_changes], batch)
      delta == Len(batch)
  IN  /\ store' = db.rows
      /\ seq' = db.seq
      /\ total_changes' = db.changes
      /\ inserted' = inserted + delta
      /\ skipped' = skipped + (Len(batch) - delta)
      /\ batch' = IF clear THEN <<>> ELSE batch
      /\ hist' = [hist EXCEPT !.flushes =
                    Append(@, [size |-> Len(batch), ins |-> delta,
                               skip |-> Len(batch) - delta,
                               grew |-> Len(db.rows) - Len(store)])]

(* executemany, commit and the counting of one batch *)
Flushed(clear) ==
  LET before == total_changes
      db == ExecuteMany([rows |-> store, seq |-> seq, changes |-> total_changes], batch)
      delta == db.changes - before
  IN  /\ store' = db.rows
      /\ seq' = db.seq
      /\ total_changes' = db.changes
      /\ inserted' = inserted + delta
      /\ skipped' = skipped + (Len(batch) - delta)
      /\ batch' = IF clear THEN <<>> ELSE batch
      /\ hist' = [hist EXCEPT !.flushes =
                    Append(@, [size |-> Len(batch), ins |-> delta,
                               skip |-> Len(batch) - delta,
                               grew |-> Len(db.rows) - Len(store)])]

(* if len(batch) >= batch_size: ... batch.clear() *)
FlushBatch ==
  /\ pc = "flush"
  /\ Flushed(TRUE)
  /\ pc' = "read"
  /\ UNCHANGED <<db_exists, source, batch_size, outcome, q, cz>>

(* the reader is exhausted; if batch: the last, partial batch *)
FinalFlush ==
  /\ pc = "read"
  /\ IF batch /= <<>>
       THEN Flushed(FALSE)
       ELSE UNCHANGED <<store, seq, total_changes, inserted, skipped, batch, hist>>
  /\ pc' = "final"
  /\ UNCHANGED <<db_exists, source, batch_size, outcome, q, cz>>

(* return inserted, skipped; cmd_import counts the table and prints *)
ReturnImport ==
  /\ pc = "final"
  /\ outcome' = [kind |-> "returned", inserted |-> inserted, skipped |-> skipped,
                 total |-> Len(store)]
  /\ pc' = "returned"
  /\ UNCHANGED <<db_exists, store, seq, total_changes, source, batch_size, batch,
                 inserted, skipped, hist, q, cz>>

(* the reader raises (an I/O or decoding fault of the source): the         *)
(* exception leaves import_csv and cmd_import, neither catches it; the     *)
(* frame of import_csv, with its counters, is gone.                        *)
ReadFault ==
  /\ pc = "read"
  /\ outcome' = [kind |-> "raised"]
  /\ pc' = "raised"
  /\ UNCHANGED <<db_exists, store, seq, total_changes, source, batch_size, batch,
                 inserted, skipped, hist, q, cz>>

Next ==
  \/ \E bsz \in BatchSizes : CmdImport(bsz)
  \/ \E row \in ImportRows : ReadRow(row)
  \/ FlushBatch
  \/ FinalFlush
  \/ ReturnImport
  \/ ReadFault

Spec == Init /\ [][Next]_vars

-----------------------------------------------------------------------------
(* Properties of the importer and the store.                               *)

Triple(r) == <<r.registration_number, r.title_name, r.owner_name>>

(* C1: whatever imports have run, no two stored records share the same     *)
(* (registration_number, title_name, owner_name).                          *)
UniquenessInvariant ==
  \A i, j \in 1..Len(store) : i /= j => Triple(store[i]) /= Triple(store[j])

(* an import has met duplicates and the store holds several records *)
UniquenessWitness ==
  /\ pc = "returned"
  /\ outcome.skipped > 0
  /\ Len(store) >= 2

(* C2: an import run that reads the same rows as the run before it returns *)
(* inserted = 0 and skipped = N and leaves the record count where the      *)
(* first run left it.                                                      *)
ImportIdempotent ==
  (pc = "returned" /\ hist.prevReturned /\ hist.prevSource = source) =>
     /\ outcome.inserted = 0
     /\ outcome.skipped = Len(source)
     /\ Len(store) = hist.prevCount
     /\ outcome.total = hist.prevCount

(* the same two rows, duplicates of each other, imported twice *)
ImportTwiceWitness ==
  /\ pc = "returned"
  /\ hist.prevReturned
  /\ hist.prevSource = source
  /\ Len(source) = 2
  /\ Triple(row_to_canonical(source[1])) = Triple(row_to_canonical(source[2]))
  /\ outcome.skipped = 2

(* C3: when import_csv returns, inserted + skipped is the number of rows   *)
(* read and inserted is the growth of the store; every flushed batch is    *)
(* counted in full, its inserts being the rows the store grew by.          *)
CountsReconcile ==
  /\ pc = "returned" =>
       /\ outcome.inserted + outcome.skipped = Len(source)
       /\ outcome.inserted = Len(store) - hist.startCount
  /\ \A i \in 1..Len(hist.flushes) :
       LET f == hist.flushes[i]
       IN  /\ f.ins + f.skip = f.size
           /\ f.ins = f.grew
           /\ f.skip >= 0

(* a run of several batches that both inserted and skipped *)
CountsWitness ==
  /\ pc = "returned"
  /\ outcome.inserted > 0
  /\ outcome.skipped > 0
  /\ Len(hist.flushes) >= 2

IsPrefix(s, t) == Len(s) <= Len(t) /\ \A i \in 1..Len(s) : t[i] = s[i]

(* C4: no step changes or removes a stored record: the store only grows at *)
(* its end, every stored record keeps its id and all its fields.           *)
NeverUpdatedInPlace == [][IsPrefix(store, store')]_vars

(* a row with the dedup triple of a stored record and another state was    *)
(* imported and skipped                                                    *)
SameKeyImportedWitness ==
  /\ pc = "returned"
  /\ outcome.skipped > 0
  /\ \E i \in 1..Len(source), j \in 1..Len(store) :
       LET c == row_to_canonical(source[i])
       IN  /\ Triple(c) = Triple(store[j])
           /\ c.pub_state_name /= store[j].pub_state_name
           /\ c.meta_json /= store[j].meta_json

(* C9: when reading the source fails, the caller receives the fault        *)
(* together with the inserted and skipped counts of the batches committed  *)
(* so far, and those batches stay stored.                                  *)
FaultSurfacesCounts ==
  pc = "raised" =>
     /\ Len(store) = hist.startCount + inserted
     /\ "inserted" \in DOMAIN outcome
     /\ "skipped" \in DOMAIN outcome
     /\ outcome.inserted = inserted
     /\ outcome.skipped = skipped

-----------------------------------------------------------------------------
(* Calls of row_to_canonical on raw rows of up to MaxFields entries.       *)

RawHeaders ==
  { None, <<>>, <<" ">>,
    <<"T", "i", "t", "l", "e", " ", "N", "a", "m", "e">>, <<" ", "T", "I", "T", "L", "E", " ">>, <<"R", "e", "g", "i", "s", "t", "r", "a", "t", "i", "o", "n", " ", "N", "o">>, <<"O", "w", "n", "e", "r">>, <<"S", "t", "a", "t", "e">>, <<"E", "d", "i", "t", "o", "r">>, <<" ", "e", "d", "i", "t", "o", "r">>, <<"C", "l", "a", "s", "s", "_", "N", "a", "m", "e">> }

RawValues ==
  { None, <<>>, <<"D", "a", "i", "l", "y", " ", "N", "e", "w", "s">>, <<" ", "G", "o", "a", " ">> }

RECURSIVE RowsUpTo(_)
RowsUpTo(n) ==
  IF n = 0 THEN {<<>>}
  ELSE LET shorter == RowsUpTo(n - 1)
       IN  shorter \cup
           { Append(r, <<h, v>>) :
               r \in {t \in shorter : Len(t) = n - 1},
               h \in RawHeaders, v \in RawValues }

(* the keys of a dict are distinct *)
IsDict(r) == \A i, j \in 1..Len(r) : i /= j => r[i][1] /= r[j][1]

RawRows == {r \in RowsUpTo(MaxFields) : IsDict(r)} \cup ImportRows

InitCanon ==
  /\ Init

CallRowToCanonical(row) ==
  /\ cz.fn = "none"
  /\ cz' = [fn |-> "row_to_canonical", row |-> row, result |-> row_to_canonical(row)]
  /\ UNCHANGED <<db_exists, store, seq, total_changes, pc, source, batch_size,
                 batch, inserted, skipped, outcome, hist, q>>

(* header names: the raw headers, the canonical names, the alias keys and  *)
(* spellings of them with other case, blanks and underscores               *)
HeaderNames ==
  RawHeaders
  \cup {CANONICAL_COLUMNS[i] : i \in 1..Len(CANONICAL_COLUMNS)}
  \cup {ALIASES[i][1] : i \in 1..Len(ALIASES)}
  \cup { <<"s", "r", " ", "n", "o">>,
      <<"S", ".", "N", "o">>,
      <<" ", "S", " ", " ", "N", "O", " ">>,
      <<"T", "I", "T", "L", "E">>,
      <<"T", "i", "t", "l", "e", "_", "N", "a", "m", "e">>,
      <<" ", " ", "R", "e", "g", "i", "s", "t", "r", "a", "t", "i", "o", "n", " ", " ", " ", "N", "o", " ">>,
      <<"r", "e", "g", "i", "s", "t", "r", "a", "t", "i", "o", "n", "_", "_", "n", "u", "m", "b", "e", "r">>,
      <<"O", "w", "n", "e", "r">>,
      <<"o", "w", "n", "e", "r", " ", "n", "a", "m", "e", " ">>,
      <<"S", "t", "a", "t", "e">>,
      <<"P", "u", "b", "l", "i", "c", "a", "t", "i", "o", "n", " ", "S", "t", "a", "t", "e">>,
      <<"D", "i", "s", "t", "r", "i", "c", "t">>,
      <<"p", "u", "b", "l", "i", "c", "a", "t", "i", "o", "n", "_", "d", "i", "s", "t", "r", "i", "c", "t">>,
      <<"L", "a", "n", "g", "u", "a", "g", "e", "s">>,
      <<"C", "l", "a", "s", "s">>,
      <<"c", "l", "a", "s", "s", " ", "n", "a", "m", "e">>,
      <<"E", "d", "i", "t", "o", "r">>,
      <<" ", "D", "a", "t", "e", " ", "o", "f", " ", " ", "R", "e", "g", "_", "n", " ">>,
      <<"_">>,
      <<"a", "_", " ", "b">>,
      <<"p", "u", "b", " ", "s", "t", "a", "t", "e">>,
      <<"P", "u", "b", "_", "S", "t", "a", "t", "e", " ", "N", "a", "m", "e">> }

CallNormalizeHeader(name) ==
  /\ cz.fn = "none"
  /\ cz' = [fn |-> "normalize_header", name |-> name, calls |-> 1,
            result |-> normalize_header(name)]
  /\ UNCHANGED <<db_exists, store, seq, total_changes, pc, source, batch_size,
                 batch, inserted, skipped, outcome, hist, q>>

(* normalize_header called on the result of the call before *)
NormalizeAgain ==
  /\ cz.fn = "normalize_header"
  /\ cz.calls = 1
  /\ cz' = [fn |-> "normalize_header", name |-> cz.name, calls |-> 2,
            first |-> cz.result, result |-> normalize_header(cz.result)]
  /\ UNCHANGED <<db_exists, store, seq, total_changes, pc, source, batch_size,
                 batch, inserted, skipped, outcome, hist, q>>

NextCanon ==
  \/ \E row \in RawRows : CallRowToCanonical(row)
  \/ \E name \in HeaderNames : CallNormalizeHeader(name)
  \/ NormalizeAgain

SpecCanon == InitCanon /\ [][NextCanon]_vars

CanonicalFields ==
  << <<SR_NO, "sr_no">>, <<TITLE_NAME, "title_name">>,
     <<REGISTRATION_NUMBER, "registration_number">>, <<OWNER_NAME, "owner_name">>,
     <<PUB_STATE_NAME, "pub_state_name">>, <<PUB_DIST_NAME, "pub_dist_name">>,
     <<LANGUAGE, "language">>, <<CLASS_NAME, "class_name">> >>

(* the entries of a raw row whose header is usable and normalises to name *)
EntriesFor(row, name) ==
  {i \in 1..Len(row) : Truthy(row[i][1]) /\ normalize_header(row[i][1]) = name}

Max(S) == CHOOSE x \in S : \A y \in S : y <= x

(* C10: the result of row_to_canonical has all eight canonical fields and  *)
(* meta_json, none of them None; each canonical field is the trimmed value *)
(* of the (last) header that normalises to it, or "" when there is no such *)
(* header or its value is missing; the scenario row gives the record of    *)
(* the specification.                                                      *)
CanonicalAlwaysPresent ==
  cz.fn = "row_to_canonical" =>
    LET c == cz.result
    IN  /\ DOMAIN c = { "sr_no", "title_name", "registration_number", "owner_name",
                        "pub_state_name", "pub_dist_name", "language", "class_name",
                        "meta_json" }
        /\ \A f \in DOMAIN c : c[f] /= None
        /\ \A k \in 1..Len(CanonicalFields) :
             LET name == CanonicalFields[k][1]
                 f == CanonicalFields[k][2]
                 es == EntriesFor(cz.row, name)
             IN  c[f] = IF es = {} THEN <<>>
                        ELSE LET v == cz.row[Max(es)][2]
                             IN  IF v = None THEN <<>> ELSE Strip(v)
        /\ cz.row = ScenarioRow =>
             c = [ sr_no               |-> <<>>,
                   title_name          |-> <<"D", "a", "i", "l", "y", " ", "N", "e", "w", "s">>,
                   registration_number |-> <<"R", "E", "G", "1", "2", "3">>,
                   owner_name          |-> <<"R", "a", "m", "e", "s", "h", " ", "K", "u", "m", "a", "r">>,
                   pub_state_name      |-> <<"M", "a", "h", "a", "r", "a", "s", "h", "t", "r", "a">>,
                   pub_dist_name       |-> <<>>,
                   language            |-> <<>>,
                   class_name          |-> <<>>,
                   meta_json           |-> <<>> ]

(* a row with a blank header, a missing value under a canonical header and *)
(* no header for the other fields has been canonicalised                   *)
CanonicalMissingWitness ==
  /\ cz.fn = "row_to_canonical"
  /\ \E i, j \in 1..Len(cz.row) :
       /\ cz.row[i][1] = <<>>
       /\ cz.row[j][1] = <<"S", "t", "a", "t", "e">>
       /\ cz.row[j][2] = None
  /\ cz.result.pub_state_name = <<>>

-----------------------------------------------------------------------------
(* Query builder and the two query paths.                                  *)

(* SQLite's LIKE: % matches any run of characters, _ any one character,    *)
(* letters match without regard to (ASCII) case; there is no ESCAPE.       *)
RECURSIVE SqlLike(_, _)
SqlLike(pattern, text) ==
  IF pattern = <<>> THEN text = <<>>
  ELSE IF Head(pattern) = "%"
         THEN SqlLike(Tail(pattern), text)
              \/ (text /= <<>> /\ SqlLike(pattern, Tail(text)))
         ELSE /\ text /= <<>>
              /\ (Head(pattern) = "_" \/ LowerChar(Head(pattern)) = LowerChar(Head(text)))
              /\ SqlLike(Tail(pattern), Tail(text))

(* one clause of the WHERE with its bound parameter:                       *)
(* LOWER(field) LIKE LOWER(?)  or  LOWER(field) = LOWER(?)                 *)
ClauseHolds(r, clause) ==
  IF clause.op = "LIKE"
    THEN SqlLike(Lower(clause.param), Lower(r[clause.field]))
    ELSE Lower(r[clause.field]) = Lower(clause.param)

(* " AND ".join(clauses); no clause: no WHERE (CLI), 1=1 (UI) *)
WhereHolds(r, clauses) == \A i \in 1..Len(clauses) : ClauseHolds(r, clauses[i])

(* LIMIT n: a negative n is no limit *)
SqlLimit(rows, n) ==
  IF n < 0 \/ n >= Len(rows) THEN rows ELSE SubSeq(rows, 1, n)

Reverse(rows) == [i \in 1..Len(rows) |-> rows[Len(rows) + 1 - i]]

add_like(clauses, field, value) ==
  IF value /= <<>>
    THEN Append(clauses, [op |-> "LIKE", field |-> field,
                          param |-> <<"%">> \o Strip(value) \o <<"%">>])
    ELSE clauses

(* add_eq comparing with LIKE and the % wildcards, as add_like does *)
add_eq_as_like(clauses, field, value) ==
  IF value /= <<>>
    THEN Append(clauses, [op |-> "LIKE", field |-> field,
                          param |-> <<"%">> \o Strip(value) \o <<"%">>])
    ELSE clauses

add_eq(clauses, field, value) ==
  IF value /= <<>>
    THEN Append(clauses, [op |-> "=", field |-> field, param |-> Strip(value)])
    ELSE clauses

build_where_clause(args) ==
  add_eq(add_eq(add_eq(add_eq(
    add_like(add_like(add_like(<<>>,
      "title_name", args.title),
      "owner_name", args.owner),
      "registration_number", args.registration_number),
    "pub_state_name", args.state),
    "pub_dist_name", args.district),
    "language", args.language),
    "class_name", args.class_name)

(* SELECT * ... [WHERE ...] ORDER BY id ASC [LIMIT ?]: the rows of the     *)
(* table are kept in id order; LIMIT is added only if args.limit is truthy *)
query_data(rows, args, limit) ==
  LET clauses == build_where_clause(args)
      selected == SelectSeq(rows, LAMBDA r : WhereHolds(r, clauses))
  IN  IF limit /= 0 THEN SqlLimit(selected, limit) ELSE selected

UiLike(clauses, field, value) ==
  IF value /= <<>>
    THEN Append(clauses, [op |-> "LIKE", field |-> field,
                          param |-> <<"%">> \o value \o <<"%">>])
    ELSE clauses

UiEq(clauses, field, value) ==
  IF value /= <<>>
    THEN Append(clauses, [op |-> "=", field |-> field, param |-> value])
    ELSE clauses

build_search_query(filters) ==
  UiEq(UiEq(UiEq(UiEq(
    UiLike(UiLike(UiLike(<<>>,
      "title_name", filters.title),
      "owner_name", filters.owner),
      "registration_number", filters.registration_number),
    "pub_state_name", filters.state),
    "pub_dist_name", filters.district),
    "language", filters.language),
    "class_name", filters.class_name)

(* the eight columns search_database selects *)
Selected(r) ==
  [ sr_no               |-> r.sr_no,
    title_name          |-> r.title_name,
    registration_number |-> r.registration_number,
    owner_name          |-> r.owner_name,
    pub_state_name      |-> r.pub_state_name,
    pub_dist_name       |-> r.pub_dist_name,
    language            |-> r.language,
    class_name          |-> r.class_name ]

(* SELECT sr_no, ... WHERE ... ORDER BY id DESC LIMIT ? *)
search_database(rows, filters, limit) ==
  LET clauses == build_search_query(filters)
      selected == Reverse(SelectSeq(rows, LAMBDA r : WhereHolds(r, clauses)))
      limited == SqlLimit(selected, limit)
  IN  [i \in 1..Len(limited) |-> Selected(limited[i])]

-----------------------------------------------------------------------------
(* Queries on the stores that imports of up to MaxStore rows leave.        *)

QueryRow1 ==
  << <<<<"T", "i", "t", "l", "e">>, <<"a", "b">>>>,
     <<<<"R", "e", "g", "i", "s", "t", "r", "a", "t", "i", "o", "n", " ", "N", "o">>, <<"R", "1">>>>,
     <<<<"O", "w", "n", "e", "r">>, <<"A", "n", "n">>>>,
     <<<<"S", "t", "a", "t", "e">>, <<"G", "o", "a">>>>,
     <<<<"D", "i", "s", "t", "r", "i", "c", "t">>, <<"n">>>>,
     <<<<"L", "a", "n", "g", "u", "a", "g", "e">>, <<"h">>>>,
     <<<<"C", "l", "a", "s", "s">>, <<"p">>>> >>

QueryRow2 ==
  << <<<<"T", "i", "t", "l", "e">>, <<"A", "%">>>>,
     <<<<"R", "e", "g", "i", "s", "t", "r", "a", "t", "i", "o", "n", " ", "N", "o">>, <<"r", "_", "2">>>>,
     <<<<"O", "w", "n", "e", "r">>, <<"a", "n">>>>,
     <<<<"S", "t", "a", "t", "e">>, <<"g", "o", "a">>>>,
     <<<<"D", "i", "s", "t", "r", "i", "c", "t">>, <<"n">>>>,
     <<<<"L", "a", "n", "g", "u", "a", "g", "e">>, <<"H">>>>,
     <<<<"C", "l", "a", "s", "s">>, <<"q">>>> >>

QueryRow3 ==
  << <<<<"T", "i", "t", "l", "e">>, <<"b", "_", "a">>>>,
     <<<<"R", "e", "g", "i", "s", "t", "r", "a", "t", "i", "o", "n", " ", "N", "o">>, <<"R", "1", "2">>>>,
     <<<<"O", "w", "n", "e", "r">>, <<"B", "o">>>>,
     <<<<"S", "t", "a", "t", "e">>, <<"G", "o", "a", " ", "W", "e", "s", "t">>>>,
     <<<<"D", "i", "s", "t", "r", "i", "c", "t">>, <<"s">>>>,
     <<<<"L", "a", "n", "g", "u", "a", "g", "e">>, <<"h">>>>,
     <<<<"C", "l", "a", "s", "s">>, <<"p">>>> >>

QueryRow4 ==
  << <<<<"T", "i", "t", "l", "e">>, <<"c">>>>,
     <<<<"E", "d", "i", "t", "o", "r">>, <<"x">>>> >>

QueryRows == {QueryRow1, QueryRow2, QueryRow3, QueryRow4}

RECURSIVE Canonicals(_)
Canonicals(rows) ==
  IF rows = <<>> THEN <<>>
  ELSE <<BatchTuple(row_to_canonical(Head(rows)))>> \o Canonicals(Tail(rows))

(* the database one import of the rows src leaves *)
Imported(src) ==
  ExecuteMany([rows |-> <<>>, seq |-> 0, changes |-> 0], Canonicals(src))

Fields ==
  {"title", "owner", "registration_number", "state", "district", "language",
   "class_name"}

LikeFields == {"title", "owner", "registration_number"}

EqFields == {"state", "district", "language", "class_name"}

ColumnOf(f) ==
  CASE f = "title" -> "title_name"
    [] f = "owner" -> "owner_name"
    [] f = "registration_number" -> "registration_number"
    [] f = "state" -> "pub_state_name"
    [] f = "district" -> "pub_dist_name"
    [] f = "language" -> "language"
    [] f = "class_name" -> "class_name"

Blank == [f \in Fields |-> <<>>]

FilterValues ==
  { <<"a">>,
    <<"B">>,
    <<"%">>,
    <<"_">>,
    <<"g", "o", "a">>,
    <<"G", "o", "a", " ">>,
    <<" ">>,
    <<"h">>,
    <<"R", "1">>,
    <<"z">> }

(* a value of each field that some stored record matches *)
ComboValue(f) ==
  CASE f = "title" -> <<"a">>
    [] f = "owner" -> <<"N">>
    [] f = "registration_number" -> <<"r">>
    [] f = "state" -> <<"G", "O", "A">>
    [] f = "district" -> <<"n">>
    [] f = "language" -> <<"h">>
    [] f = "class_name" -> <<"p">>

(* one filter set to any of FilterValues, or any set of fields each set to *)
(* its ComboValue                                                          *)
FilterSpecs ==
  {[Blank EXCEPT ![f] = v] : f \in Fields, v \in FilterValues}
  \cup {[f \in Fields |-> IF f \in A THEN ComboValue(f) ELSE <<>>] : A \in SUBSET Fields}

Limits == 0..MaxStore

-----------------------------------------------------------------------------
(* Filter choices of the UI: get_unique_values.                            *)

(* the printable ASCII characters (the grave accent left out) in the order *)
(* of their codes: the order of SQLite's BINARY collation on stored text   *)
AsciiChars ==
  << " ", "!", "\"", "#", "$", "%", "&", "'", "(", ")", "*", "+",
     ",", "-", ".", "/", "0", "1", "2", "3", "4", "5", "6", "7",
     "8", "9", ":", ";", "<", "=", ">", "?", "@", "A", "B", "C",
     "D", "E", "F", "G", "H", "I", "J", "K", "L", "M", "N", "O",
     "P", "Q", "R", "S", "T", "U", "V", "W", "X", "Y", "Z", "[",
     "\\", "]", "^", "_", "a", "b", "c", "d", "e", "f", "g",
     "h", "i", "j", "k", "l", "m", "n", "o", "p", "q", "r", "s",
     "t", "u", "v", "w", "x", "y", "z", "{", "|", "}", "~" >>

Code(c) == CHOOSE i \in 1..Len(AsciiChars) : AsciiChars[i] = c

(* a sorts before b under ORDER BY: memcmp, a proper prefix first *)
RECURSIVE BinaryLess(_, _)
BinaryLess(a, b) ==
  IF b = <<>> THEN FALSE
  ELSE IF a = <<>> THEN TRUE
  ELSE IF Head(a) = Head(b) THEN BinaryLess(Tail(a), Tail(b))
  ELSE Code(Head(a)) < Code(Head(b))

RECURSIVE OrderBy(_)
OrderBy(S) ==
  IF S = {} THEN <<>>
  ELSE LET least == CHOOSE x \in S : \A y \in S \ {x} : BinaryLess(x, y)
       IN  <<least>> \o OrderBy(S \ {least})

(* SELECT DISTINCT column FROM registrations WHERE column != ''            *)
(* ORDER BY column                                                         *)
SelectDistinct(rows, column) ==
  OrderBy({rows[i][column] : i \in 1..Len(rows)} \ {<<>>})

(* raises: conn.execute raised (the file is there, the table is not) *)
get_unique_values(rows, column, raises) ==
  IF raises THEN << <<>> >> ELSE << <<>> >> \o SelectDistinct(rows, column)

Columns ==
  { "sr_no", "title_name", "registration_number", "owner_name",
    "pub_state_name", "pub_dist_name", "language", "class_name" }

InitQuery ==
  /\ \E src \in SeqsUpTo(QueryRows, MaxStore) :
       \/ /\ src = <<>>
          /\ db_exists = FALSE
          /\ store = <<>>
          /\ seq = 0
       \/ /\ db_exists = TRUE
          /\ store = Imported(src).rows
          /\ seq = Imported(src).seq
  /\ total_changes = 0
  /\ pc = "idle"
  /\ source = <<>>
  /\ batch_size = DEFAULT_BATCH_SIZE
  /\ batch = <<>>
  /\ inserted = 0
  /\ skipped = 0
  /\ outcome = NoOutcome
  /\ hist = [prevReturned |-> FALSE, prevSource |-> <<>>, prevCount |-> 0,
             startCount |-> 0, flushes |-> <<>>]
  /\ q = [path |-> "none"]
  /\ cz = [fn |-> "none"]

(* cmd_query: connect_db (sqlite3.connect and CREATE TABLE IF NOT EXISTS   *)
(* create a missing store, empty), query_data, print_rows; the function    *)
(* returns and the process exits with status 0                             *)
CmdQuery(args, limit) ==
  /\ q.path = "none"
  /\ db_exists' = TRUE
  /\ q' = [path |-> "cli", args |-> args, limit |-> limit,
           rows |-> query_data(store, args, limit), exit |-> 0]
  /\ UNCHANGED <<store, seq, total_changes, pc, source, batch_size, batch,
                 inserted, skipped, outcome, hist, cz>>

(* app.main with the store present: search_database *)
UiSearch(filters, limit) ==
  /\ q.path = "none"
  /\ db_exists
  /\ q' = [path |-> "ui", args |-> filters, limit |-> limit,
           rows |-> search_database(store, filters, limit)]
  /\ UNCHANGED <<db_exists, store, seq, total_changes, pc, source, batch_size,
                 batch, inserted, skipped, outcome, hist, cz>>

(* app.main with the store file missing: get_db_connection reports it and  *)
(* returns None, main shows the import guidance and returns                *)
UiNoDatabase ==
  /\ q.path = "none"
  /\ ~db_exists
  /\ q' = [path |-> "ui-no-database", conn |-> None,
           message |-> "Database file not found. Please import data first."]
  /\ UNCHANGED <<db_exists, store, seq, total_changes, pc, source, batch_size,
                 batch, inserted, skipped, outcome, hist, cz>>

(* app.main filling a selectbox: get_unique_values on the open store *)
UiUniqueValues(column) ==
  /\ q.path = "none"
  /\ db_exists
  /\ q' = [path |-> "unique", column |-> column, raised |-> FALSE,
           values |-> get_unique_values(store, column, FALSE)]
  /\ UNCHANGED <<db_exists, store, seq, total_changes, pc, source, batch_size,
                 batch, inserted, skipped, outcome, hist, cz>>

(* get_unique_values when the SELECT raises: the bare except returns [""] *)
UiUniqueValuesFault(column) ==
  /\ q.path = "none"
  /\ db_exists
  /\ q' = [path |-> "unique", column |-> column, raised |-> TRUE,
           values |-> get_unique_values(store, column, TRUE)]
  /\ UNCHANGED <<db_exists, store, seq, total_changes, pc, source, batch_size,
                 batch, inserted, skipped, outcome, hist, cz>>

NextQuery ==
  \/ \E args \in FilterSpecs, limit \in Limits : CmdQuery(args, limit)
  \/ \E filters \in FilterSpecs, limit \in Limits : UiSearch(filters, limit)
  \/ UiNoDatabase
  \/ \E column \in Columns : UiUniqueValues(column)
  \/ \E column \in Columns : UiUniqueValuesFault(column)

SpecQuery == InitQuery /\ [][NextQuery]_vars

-----------------------------------------------------------------------------
(* Properties of the queries.                                              *)

Queried == q.path \in {"cli", "ui"}

ActiveFields(args) == {f \in Fields : args[f] /= <<>>}

(* the records a result holds, as their eight canonical columns *)
Views(rows) == {Selected(rows[i]) : i \in 1..Len(rows)}

(* x occurs in text as a run of consecutive characters *)
Contains(text, x) ==
  \E i \in 0..(Len(text) - Len(x)) : SubSeq(text, i + 1, i + Len(x)) = x

(* the query of one path *)
Run(path, args, limit) ==
  IF path = "cli" THEN query_data(store, args, limit)
  ELSE search_database(store, args, limit)

(* C5: a search with only one substring filter X set, and a limit not      *)
(* smaller than the store, returns exactly the stored records whose field  *)
(* contains X without regard to case, whatever characters X holds.         *)
SubstringFilterExact ==
  (Queried /\ q.limit >= Len(store)) =>
    \A f \in LikeFields :
      ActiveFields(q.args) = {f} =>
        Views(q.rows) =
          { Selected(store[i]) : i \in
              {j \in 1..Len(store) :
                 Contains(Lower(store[j][ColumnOf(f)]), Lower(q.args[f]))} }

(* the results of the searches with each active filter of args alone *)
SingleResults(path, args) ==
  { Views(Run(path, [Blank EXCEPT ![f] = args[f]], Len(store))) :
      f \in ActiveFields(args) }

(* the records that are in every set of the family *)
InAll(family) == {v \in UNION family : \A S \in family : v \in S}

Compared(path, y) == IF path = "cli" THEN Strip(y) ELSE y

Take(s, n) == IF n >= Len(s) THEN s ELSE IF n <= 0 THEN <<>> ELSE SubSeq(s, 1, n)

(* C7: a search with every filter blank returns the first limit records in *)
(* the order of its path: ascending id on the CLI, descending id in the UI *)
EmptyFilterFirstLimit ==
  (Queried /\ q.args = Blank) =>
    q.rows = IF q.path = "cli"
               THEN Take(store, q.limit)
               ELSE Take([i \in 1..Len(store) |-> Selected(Reverse(store)[i])], q.limit)

(* C8: a query returns at most limit records, whatever the filters and the *)
(* limit, 0 included.                                                      *)
AtMostLimit == Queried => Len(q.rows) <= q.limit

-----------------------------------------------------------------------------
(* Properties of the extras of a canonical record.                         *)

(* the entries of a raw row with a usable header that is not recognised as *)
(* canonical and a value that is not empty once trimmed                    *)
UnknownEntries(row) ==
  {i \in 1..Len(row) :
     /\ Truthy(row[i][1])
     /\ normalize_header(row[i][1]) /= <<>>
     /\ ~IsCanonical(normalize_header(row[i][1]))
     /\ Strip(OrEmpty(row[i][2])) /= <<>>}

(* the member of a JSON object that holds the entry under its normalised   *)
(* header                                                                  *)
JsonMember(entry) ==
  JsonString(normalize_header(entry[1])) \o <<":", " ">>
    \o JsonString(Strip(OrEmpty(entry[2])))

(* C11: every entry of the raw row with an unrecognised header and a       *)
(* non-empty trimmed value is a member of the record's extras and is not   *)
(* promoted to a canonical field; extras is "" exactly when the row has no *)
(* such entry; no member of extras has an empty name.                      *)
ExtrasPreserveUnknown ==
  cz.fn = "row_to_canonical" =>
    LET c == cz.result
        unknown == UnknownEntries(cz.row)
    IN  /\ \A i \in unknown : Contains(c.meta_json, JsonMember(cz.row[i]))
        /\ \A k \in 1..Len(CanonicalFields) :
             EntriesFor(cz.row, CanonicalFields[k][1]) = {} =>
               c[CanonicalFields[k][2]] = <<>>
        /\ (c.meta_json = <<>>) <=> (unknown = {})
        /\ ~Contains(c.meta_json, <<"\"", "\"", ":">>)

-----------------------------------------------------------------------------
(* Properties of the header normaliser.                                    *)

(* C12: normalising the result of normalize_header gives that result       *)
(* again, whatever the header; each of the eight canonical field names     *)
(* normalises to itself.                                                   *)
NormalizeIdempotent ==
  /\ (cz.fn = "normalize_header" /\ cz.calls = 2) => cz.result = cz.first
  /\ (cz.fn = "normalize_header" /\ cz.calls = 1 /\ IsCanonical(cz.name)) =>
       cz.result = cz.name

(* a header that is not in normal form (mixed case, blanks, underscores)   *)
(* and no alias has been normalised twice                                  *)
NormalizeTwiceWitness ==
  /\ cz.fn = "normalize_header"
  /\ cz.calls = 2
  /\ cz.name /= None
  /\ cz.first /= cz.name
  /\ ~IsCanonical(cz.first)
  /\ Contains(cz.first, <<"_">>)

-----------------------------------------------------------------------------
(* Properties of opening the store.                                        *)

(* C13: a query leaves the store as it is, its file included; on a missing *)
(* store file the UI path has no connection and shows a message, the CLI   *)
(* path does not run the query as on an empty store and exits non-zero.    *)
MissingStoreReported ==
  [][ (q.path = "none" /\ q'.path /= "none") =>
        /\ UNCHANGED <<db_exists, store, seq>>
        /\ ~db_exists =>
             \/ /\ q'.path = "ui-no-database"
                /\ q'.conn = None
                /\ q'.message /= ""
             \/ /\ q'.path = "cli"
                /\ q'.exit /= 0
                /\ "rows" \notin DOMAIN q' ]_vars

-----------------------------------------------------------------------------
(* Properties of the filter choices.                                       *)

(* C14: get_unique_values returns the distinct non-empty values of the     *)
(* column among the stored records, each once, in ascending order, the     *)
(* empty string not among them; the result of a failed lookup is not the   *)
(* result of a lookup that found no value.                                 *)
DistinctValuesExact ==
  q.path = "unique" =>
    /\ ~q.raised =>
         /\ {q.values[i] : i \in 1..Len(q.values)} =
              {store[j][q.column] : j \in 1..Len(store)} \ {<<>>}
         /\ \A i \in 1..(Len(q.values) - 1) : BinaryLess(q.values[i], q.values[i + 1])
    /\ \A i \in 1..Len(q.values) : q.values[i] /= <<>>
    /\ q.raised => q.values /= get_unique_values(<<>>, q.column, FALSE)

-----------------------------------------------------------------------------
(* Properties of the batch buffer.                                         *)

(* C15: with a batch size B >= 1 the batch never holds more than B rows    *)
(* and holds fewer than B whenever a row is about to be read; every batch  *)
(* flushed inside the loop has exactly B rows; when the reader is          *)
(* exhausted the partial batch is flushed too, so that at the return every *)
(* row read is counted as inserted or skipped and its record is stored.    *)
BatchBounded ==
  batch_size >= 1 =>
    /\ Len(batch) <= batch_size
    /\ pc = "read" => Len(batch) < batch_size
    /\ pc \in {"read", "flush"} =>
         \A i \in 1..Len(hist.flushes) : hist.flushes[i].size = batch_size
    /\ pc \in {"final", "returned"} =>
         /\ inserted + skipped = Len(source)
         /\ \A i \in 1..Len(source) :
              \E j \in 1..Len(store) :
                 Triple(store[j]) = Triple(row_to_canonical(source[i]))
         /\ \A i \in 1..Len(hist.flushes) :
              IF i < Len(hist.flushes)
                THEN hist.flushes[i].size = batch_size
                ELSE hist.flushes[i].size \in 1..batch_size

(* an import of three rows with batch size two has returned: one full      *)
(* batch flushed in the loop and the partial batch flushed at the end      *)
BatchWitness ==
  /\ pc = "returned"
  /\ batch_size = 2
  /\ Len(source) = 3
  /\ Len(hist.flushes) = 2
  /\ hist.flushes[2].size = 1

=============================================================================
